---------------------------- MODULE Spec2Model ----------------------------
(***************************************************************************)
(* A model of flacgo (github.com/jacopo-degattis/flacgo): the metadata     *)
(* block scan, the VORBIS_COMMENT codec, the tag merge, the PICTURE block  *)
(* builder and the file rebuild done by Save.                              *)
(*                                                                         *)
(* Files and payloads are sequences of bytes (0..255).  Go strings are     *)
(* byte strings, so a string is the sequence of its bytes; the model keeps *)
(* to ASCII text.  Go's int is taken to be 64 bits wide, uint32 values are *)
(* kept as pairs <<high 16 bits, low 16 bits>> so that their arithmetic    *)
(* wraps at 2^32 as in the program.  The range loop of getBlock takes the  *)
(* address of a per-iteration variable (Go 1.22 and later).                *)
(***************************************************************************)
EXTENDS Integers, Sequences, FiniteSets, TLC

VARIABLES
    disk,            \* path -> the file at that path (NoFile when there is none)
    phase,           \* the caller's position: "closed", "open", "failed", "panicked"
    flac,            \* the Flac struct of the session (Open's flacRef)
    ret,             \* what the last call returned
    hist,            \* history: what the calls so far did (used by the properties only)
    gen,             \* VORBIS_COMMENT codec: how the payload under test was laid out
    payload,         \* VORBIS_COMMENT codec: the payload bytes under test
    parsed,          \* VORBIS_COMMENT codec: parseVorbisBlock's result on it
    recoded,         \* VORBIS_COMMENT codec: the decoding of what Save encodes from it
    req,             \* block builders: the block type and payload length asked for
    built,           \* block builders: what the builder returned for it
    scan             \* block scan: the loop of readAllMetadataBlocks on one file

vars == <<disk, phase, flac, ret, hist, gen, payload, parsed, recoded, req, built, scan>>
sessionVars == <<disk, phase, flac, ret, hist>>
codecVars == <<gen, payload, parsed, recoded>>
builderVars == <<req, built>>
\* what the calls of a session leave alone
offlineVars == <<codecVars, builderVars, scan>>

\* Go's nil for a pointer or a map, and a value behind a non-nil one
None == [some |-> FALSE]
Some(v) == [some |-> TRUE, v |-> v]

\* a path with no file, and a file with its bytes
NoFile == [exists |-> FALSE, data |-> <<>>]
File(bytes) == [exists |-> TRUE, data |-> bytes]

\* no *Flac: before Open, and after an Open that returned an error
NoSession == [open |-> FALSE]

\* a nil *MetadataBlock
NoBlock == [nil |-> TRUE]

Idle == "idle"

-----------------------------------------------------------------------------
(* Bytes, strings, integers *)

Byte == 0 .. 255
EqSign == 61

Min(a, b) == IF a < b THEN a ELSE b

\* s[from+1 .. to] in Go's s[from:to] notation (0-based, end exclusive)
Slice(s, from, to) == SubSeq(s, from + 1, to)

RECURSIVE Flatten(_)
Flatten(ss) == IF ss = <<>> THEN <<>> ELSE Head(ss) \o Flatten(Tail(ss))

AppendTo(slice, elems) == slice \o Flatten(elems)

\* strings.ToLower on ASCII text
LowerByte(b) == IF b >= 65 /\ b <= 90 THEN b + 32 ELSE b
ToLower(s) == [i \in 1 .. Len(s) |-> LowerByte(s[i])]

\* strings.EqualFold on ASCII text
EqualFold(s, t) ==
    /\ Len(s) = Len(t)
    /\ \A i \in 1 .. Len(s) : LowerByte(s[i]) = LowerByte(t[i])

\* uint32 values: <<hi, lo>> with hi, lo in 0 .. 65535
U32Of(n) == <<n \div 65536, n % 65536>>
U32Add(u, v) ==
    LET lo == u[2] + v[2]
    IN  <<(u[1] + v[1] + (lo \div 65536)) % 65536, lo % 65536>>
\* the value fits the model's integers (it is below 2^30)
U32Small(u) == u[1] < 16384
U32Int(u) == u[1] * 65536 + u[2]
\* n < int(u) + k in 64-bit int arithmetic, for n below 2^30 and small k
IntLess(n, u, k) == IF U32Small(u) THEN n < U32Int(u) + k ELSE TRUE

\* binary.LittleEndian.Uint32(b[0:4])
LittleEndianUint32(b) == <<b[4] * 256 + b[3], b[2] * 256 + b[1]>>
\* binary.BigEndian.Uint32(b[0:4])
BigEndianUint32(b) == <<b[1] * 256 + b[2], b[3] * 256 + b[4]>>

LittleEndian == "LittleEndian"
BigEndian == "BigEndian"

\* endian.PutUint32(tmpBuffer, value) on a 4-byte buffer
PutUint32(u, endian) ==
    LET be == <<u[1] \div 256, u[1] % 256, u[2] \div 256, u[2] % 256>>
    IN  IF endian = BigEndian THEN be ELSE <<be[4], be[3], be[2], be[1]>>

ToBytes(u, bytesLength, endian) ==
    LET tmpBuffer == PutUint32(u, endian)
    IN  Slice(tmpBuffer, 4 - bytesLength, 4)

-----------------------------------------------------------------------------
(* VORBIS_COMMENT decoding *)

VorbisComment(title, value) == [Title |-> title, Value |-> value]

\* strings.Split(s, "="): the pieces between the '=' bytes
RECURSIVE SplitFrom(_, _, _)
SplitFrom(s, i, cur) ==
    IF i > Len(s) THEN <<cur>>
    ELSE IF s[i] = EqSign THEN <<cur>> \o SplitFrom(s, i + 1, <<>>)
    ELSE SplitFrom(s, i + 1, Append(cur, s[i]))

Split(s) == SplitFrom(s, 1, <<>>)

Ok(v) == [kind |-> "ok", val |-> v]
Err(msg) == [kind |-> "error", val |-> msg]
Panic(msg) == [kind |-> "panic", val |-> msg]

\* the pieces of one comment's text are turned into a VorbisComment, or rejected
CommentOfValues(values) ==
    IF Len(values) # 2
    THEN Err("malformed comment (no '=' found)")
    ELSE Ok(VorbisComment(values[1], values[2]))

CommentOf(commentContent) == CommentOfValues(Split(commentContent))

\* the bounds check made before a comment's length is read
LengthCheckFails_NoPlus4(vb, offset) == IntLess(Len(vb), offset, 0)

LengthCheckFails(vb, offset) == IntLess(Len(vb), offset, 4)

\* the bounds check made before a comment's content is sliced out
ContentCheckFails(vb, offset, commentLength) ==
    \/ ~U32Small(commentLength)
    \/ Len(vb) < U32Int(offset) + U32Int(commentLength)

\* the loop of parseVorbisBlock, from `iteration` and `offset` on; a value
\* computed once in the code is handed on as a parameter
RECURSIVE parseLoop(_, _, _, _, _)

\* the end of one iteration, r being the comment decoded in it
parseAppend(vb, numberOfComments, iteration, offset, vorbisComments, commentLength, r) ==
    IF r.kind # "ok" THEN r
    ELSE parseLoop(vb, numberOfComments, iteration + 1,
                   U32Add(offset, U32Add(commentLength, U32Of(4))),
                   Append(vorbisComments, r.val))

\* one iteration from the point where commentLength has been read
parseContent(vb, numberOfComments, iteration, offset, vorbisComments, commentLength) ==
    IF ContentCheckFails(vb, offset, commentLength)
    THEN Err("unexpected end of vorbis block while reading comment content")
    ELSE IF U32Int(offset) + 4 + U32Int(commentLength) > Len(vb)
    THEN Panic("slice bounds out of range")
    ELSE parseAppend(vb, numberOfComments, iteration, offset, vorbisComments, commentLength,
                     CommentOf(Slice(vb, U32Int(offset) + 4,
                                     U32Int(offset) + 4 + U32Int(commentLength))))

parseLoop(vb, numberOfComments, iteration, offset, vorbisComments) ==
    IF ~IntLess(iteration, numberOfComments, 0) THEN Ok(vorbisComments)
    ELSE IF LengthCheckFails(vb, offset)
    THEN Err("unexpected end of vorbis block while reading comment length")
    ELSE IF ~U32Small(offset) \/ U32Int(offset) + 4 > Len(vb)
    THEN Panic("slice bounds out of range")
    ELSE parseContent(vb, numberOfComments, iteration, offset, vorbisComments,
                      LittleEndianUint32(Slice(vb, U32Int(offset), U32Int(offset) + 4)))

parseVorbisBlock(vb) ==
    IF Len(vb) < 8 THEN Err("vorbis block is too short")
    ELSE
        LET vendorLength == LittleEndianUint32(Slice(vb, 0, 4))
            lo == U32Add(U32Of(4), vendorLength)
            hi == U32Add(U32Of(8), vendorLength)
        IN  IF IntLess(Len(vb), hi, 0)
            THEN Err("vorbis block too short for vendor length")
            ELSE IF ~U32Small(lo) \/ U32Int(lo) > U32Int(hi)
            THEN Panic("slice bounds out of range")
            ELSE parseLoop(vb, LittleEndianUint32(Slice(vb, U32Int(lo), U32Int(hi))),
                           0, hi, <<>>)

-----------------------------------------------------------------------------
(* Metadata blocks and the block scan *)

\* BlockMapping[code]; a code the map does not hold gives Go's zero value ""
BlockMapping(code) ==
    CASE code = 0 -> "STREAMINFO"
      [] code = 1 -> "PADDING"
      [] code = 2 -> "APPLICATION"
      [] code = 3 -> "SEEKTABLE"
      [] code = 4 -> "VORBIS_COMMENT"
      [] code = 5 -> "CUESHEET"
      [] code = 6 -> "PICTURE"
      [] code = 127 -> "INVALID"
      [] OTHER -> ""

BlockTypeNames ==
    {"STREAMINFO", "PADDING", "APPLICATION", "SEEKTABLE", "VORBIS_COMMENT",
     "CUESHEET", "PICTURE", "INVALID"}

LastIndex(S) == CHOOSE i \in S : \A j \in S : j <= i

\* header[0] |= 0x80 and header[0] &^= 0x80
SetLastBit(header) == [header EXCEPT ![1] = (@ % 128) + 128]
ClearLastBit(header) == [header EXCEPT ![1] = @ % 128]

\* flac.readBytes(bytesNum) with the file position at pos: io.ReadFull
readBytes(file, pos, bytesNum) ==
    IF bytesNum = 0 THEN Ok(<<>>)
    ELSE IF pos + bytesNum > Len(file) THEN Err("unable to read bytes from file")
    ELSE Ok(Slice(file, pos, pos + bytesNum))

\* blockLength of a 4-byte header: the big-endian value of 0x00 and bytes 1..3
HeaderLength(headerBytes) ==
    U32Int(BigEndianUint32(<<0>> \o Slice(headerBytes, 1, 4)))

\* readMetadataBlock from the point where the header has been read
blockWithHeader(file, offset, headerBytes, blockLength, content) ==
    IF content.kind # "ok" THEN Err("unable to read metadata block")
    ELSE Ok([Index |-> offset,
             BlockType |-> BlockMapping(headerBytes[1] % 128),
             IsLastBlock |-> (headerBytes[1] \div 128 = 1),
             BlockHeader |-> [BlockType |-> headerBytes[1] % 128,
                              IsLastBlock |-> (headerBytes[1] \div 128 = 1),
                              BlockLength |-> blockLength,
                              Data |-> headerBytes],
             BlockData |-> content.val])

readMetadataBlock(file, offset) ==
    IF readBytes(file, offset, 4).kind # "ok" THEN Err("unable to read header bytes")
    ELSE blockWithHeader(file, offset, Slice(file, offset, offset + 4),
                         HeaderLength(Slice(file, offset, offset + 4)),
                         readBytes(file, offset + 4,
                                   HeaderLength(Slice(file, offset, offset + 4))))

RECURSIVE readBlocksFrom(_, _, _)

\* one turn of the loop of readAllMetadataBlocks, data being the block read
\* variant: the loop never breaks
loopBreaks_Never(data) == FALSE

\* `if data.IsLastBlock { break }`
loopBreaks(data) == data.IsLastBlock

scanStep(file, offset, blocks, data) ==
    IF data.kind # "ok" THEN Err("unable to read metadata block")
    ELSE IF loopBreaks(data.val) THEN Ok(Append(blocks, data.val))
    ELSE readBlocksFrom(file, offset + 4 + Len(data.val.BlockData),
                        Append(blocks, data.val))

readBlocksFrom(file, offset, blocks) ==
    scanStep(file, offset, blocks, readMetadataBlock(file, offset))

readAllMetadataBlocks(file) == readBlocksFrom(file, 4, <<>>)

\* the indexes of the blocks of allBlocks whose type name is blockType
\* (strings.EqualFold on names that are all upper-case, or empty for a code
\* BlockMapping does not hold, is equality)
IndexesOfType(allBlocks, blockType) ==
    {i \in 1 .. Len(allBlocks) : allBlocks[i].BlockType = blockType}

\* the last block of allBlocks whose type name is blockType, else nil
LastOfType(allBlocks, blockType) ==
    IF IndexesOfType(allBlocks, blockType) = {} THEN NoBlock
    ELSE allBlocks[LastIndex(IndexesOfType(allBlocks, blockType))]

\* getBlock from the point where the blocks have been read
blockAmong(allBlocks, blockType) ==
    IF allBlocks.kind # "ok" THEN Err("unable to read all metadata blocks")
    ELSE Ok(LastOfType(allBlocks.val, blockType))

getBlock(file, blockType) ==
    IF blockType \notin BlockTypeNames THEN Err("invalid block type")
    ELSE blockAmong(readAllMetadataBlocks(file), blockType)

\* EqualFold against upper-case type names: equality on the names used here
containsIgnoreCase(slice, str) == \E item \in slice : item = str

\* variant: a block whose type code has no name is dropped as well
GetFilteredBlocks_DropsUnnamed(blocks, blockTypes) ==
    SelectSeq(blocks, LAMBDA b : ~containsIgnoreCase(blockTypes \cup {""}, b.BlockType))

GetFilteredBlocks(blocks, blockTypes) ==
    SelectSeq(blocks, LAMBDA b : ~containsIgnoreCase(blockTypes, b.BlockType))

\* getMetadataEndOffset, walking the headers from `offset` with ReadAt
RECURSIVE metadataEndFrom(_, _)
metadataEndFrom(file, offset) ==
    IF offset + 4 > Len(file) THEN Err("unable to read metadata header")
    ELSE
        LET headerBytes == Slice(file, offset, offset + 4)
            isLast == headerBytes[1] \div 128 # 0
            next == offset + 4 + HeaderLength(headerBytes)
        IN  IF isLast THEN Ok(next) ELSE metadataEndFrom(file, next)

\* variant: the walk stops after the first block whatever its flag
getMetadataEndOffset_FirstBlockOnly(file) ==
    IF Len(file) < 8 THEN Err("unable to read metadata header")
    ELSE Ok(8 + HeaderLength(Slice(file, 4, 8)))

getMetadataEndOffset(file) == metadataEndFrom(file, 4)

-----------------------------------------------------------------------------
(* The tag merge and the block builders *)

\* removedComments[title]; reading a nil map gives false
IsRemoved(removedComments, title) ==
    removedComments.some /\ title \in removedComments.v

\* variant: an entry already in the map is kept, so the first write wins
MergedMap_FirstWins(previousComments, newComments, removedComments) ==
    LET keep == {i \in 1 .. Len(previousComments) :
                    ~IsRemoved(removedComments, ToLower(previousComments[i].Title))}
        oldKeys == {ToLower(previousComments[i].Title) : i \in keep}
        newKeys == {ToLower(newComments[i].Title) : i \in 1 .. Len(newComments)}
    IN  [k \in oldKeys \cup newKeys |->
            IF k \in oldKeys
            THEN previousComments[CHOOSE i \in keep :
                    /\ ToLower(previousComments[i].Title) = k
                    /\ \A j \in keep :
                          ToLower(previousComments[j].Title) = k => i <= j]
            ELSE newComments[CHOOSE i \in 1 .. Len(newComments) :
                    /\ ToLower(newComments[i].Title) = k
                    /\ \A j \in 1 .. Len(newComments) :
                          ToLower(newComments[j].Title) = k => i <= j]]

\* the map `comments` of FilterDuplicatedComments after its two loops
MergedMap(previousComments, newComments, removedComments) ==
    LET keep == {i \in 1 .. Len(previousComments) :
                    ~IsRemoved(removedComments, ToLower(previousComments[i].Title))}
        oldKeys == {ToLower(previousComments[i].Title) : i \in keep}
        newKeys == {ToLower(newComments[i].Title) : i \in 1 .. Len(newComments)}
    IN  [k \in oldKeys \cup newKeys |->
            IF k \in newKeys
            THEN newComments[LastIndex({i \in 1 .. Len(newComments) :
                                           ToLower(newComments[i].Title) = k})]
            ELSE previousComments[LastIndex({i \in keep :
                                           ToLower(previousComments[i].Title) = k})]]

\* the orders in which a range loop may visit the keys of a Go map
MapOrders(keys) ==
    {o \in [1 .. Cardinality(keys) -> keys] :
        \A i, j \in 1 .. Cardinality(keys) : o[i] = o[j] => i = j}

\* FilterDuplicatedComments: the lists it may return, one per iteration order
\* of the map (Go leaves the order of a range over a map unspecified)
MergedLists(comments) ==
    {[i \in 1 .. Len(o) |-> comments[o[i]]] : o \in MapOrders(DOMAIN comments)}

FilterDuplicatedComments(previousComments, newComments, removedComments) ==
    MergedLists(MergedMap(previousComments, newComments, removedComments))

VendorString == <<102, 108, 97, 99, 103, 111, 49, 46, 49>>      \* "flacgo1.1"

\* fmt.Sprintf("%s=%s", cmt.Title, cmt.Value)
CommentText(cmt) == cmt.Title \o <<EqSign>> \o cmt.Value

\* one comment of the body: its length, then its text
EncodeComment(comment) ==
    AppendTo(<<>>, <<ToBytes(U32Of(Len(comment)), 4, LittleEndian), comment>>)

RECURSIVE EncodeComments(_)
EncodeComments(allMetadata) ==
    IF allMetadata = <<>> THEN <<>>
    ELSE EncodeComment(CommentText(Head(allMetadata))) \o EncodeComments(Tail(allMetadata))

\* the header createVorbisBlock puts before a body of `length` bytes:
\* headerByte, then the low 3 bytes of uint32(len(body)); the error is nil
VorbisHeader(length) ==
    Ok(<<0 * 128 + 4>> \o ToBytes(U32Of(length), 3, BigEndian))

\* the header byte and the 3 length bytes put before a VORBIS_COMMENT body
VorbisBlockOf(body) == VorbisHeader(Len(body)).val \o body

\* createVorbisBlock, with allMetadata the list FilterDuplicatedComments returned
createVorbisBlock(pendingComments, allMetadata) ==
    IF Len(pendingComments) = 0 THEN <<>>
    ELSE VorbisBlockOf(
            AppendTo(<<>>, <<ToBytes(U32Of(Len(VendorString)), 4, LittleEndian),
                             VendorString,
                             ToBytes(U32Of(Len(allMetadata)), 4, LittleEndian)>>)
                \o EncodeComments(allMetadata))

BE32(n) == ToBytes(U32Of(n), 4, BigEndian)

\* the three length bytes of a block header: length >> 16, >> 8, & 0xFF
LengthBytes(length) == <<length[1] % 256, length[2] \div 256, length[2] % 256>>

\* the header createPictureBlock puts before a payload of `length` bytes:
\* type 6 with the last-block bit, then bits 16-23, 8-15 and 0-7 of
\* uint32(len(blockData)); the error is nil
PictureHeader(length) == Ok(<<6 + 128>> \o LengthBytes(U32Of(length)))

\* the header byte (type 6, last-block bit set) and the 3 length bytes put
\* before a PICTURE payload
PictureBlockOf(blockData) == PictureHeader(Len(blockData)).val \o blockData

\* variant: the data length is written least significant byte first
createPictureBlock_DataLengthLE(imageData, pictureMimeType) ==
    PictureBlockOf(BE32(3) \o BE32(Len(pictureMimeType)) \o pictureMimeType
                      \o BE32(0) \o BE32(600) \o BE32(600) \o BE32(24) \o BE32(0)
                      \o ToBytes(U32Of(Len(imageData)), 4, LittleEndian) \o imageData)

createPictureBlock(imageData, pictureMimeType) ==
    PictureBlockOf(BE32(3) \o BE32(Len(pictureMimeType)) \o pictureMimeType
                      \o BE32(0) \o BE32(600) \o BE32(600) \o BE32(24) \o BE32(0)
                      \o BE32(Len(imageData)) \o imageData)

SniffLen == 512

MimeJpeg == <<105, 109, 97, 103, 101, 47, 106, 112, 101, 103>>     \* "image/jpeg"
MimeOctetStream ==                                     \* "application/octet-stream"
    <<97, 112, 112, 108, 105, 99, 97, 116, 105, 111, 110, 47,
      111, 99, 116, 101, 116, 45, 115, 116, 114, 101, 97, 109>>

\* http.DetectContentType on binary data: the JPEG signature, else the
\* library's fallback type
DetectContentType(data) ==
    IF Len(data) >= 3 /\ SubSeq(data, 1, 3) = <<255, 216, 255>>
    THEN MimeJpeg ELSE MimeOctetStream

-----------------------------------------------------------------------------
(* The session: Open and the calls on a *Flac *)

MagicFLAC == <<102, 76, 97, 67>>                                    \* "fLaC"

\* GetAsText: every byte becomes the UTF-8 text of the rune with that value
GetAsText(array) ==
    Flatten([i \in 1 .. Len(array) |->
                IF array[i] < 128 THEN <<array[i]>>
                ELSE <<192 + (array[i] \div 64), 128 + (array[i] % 64)>>])

\* f.Read into a zeroed 4-byte buffer
ReadMagic(file) ==
    [i \in 1 .. 4 |-> IF i <= Len(file) THEN file[i] ELSE 0]

\* the value of getBlock with its error dropped (block, _ := getBlock(..))
BlockOrNil(r) == IF r.kind = "ok" THEN r.val ELSE NoBlock

\* flacRef as Open first builds it
NewFlac(path, file, pictureBlock) ==
    [open |-> TRUE,
     fileName |-> path,
     fileSize |-> Len(file.data),
     vorbisIndex |-> None,
     vorbisLength |-> 0,
     pendingComments |-> <<>>,
     parsedComments |-> <<>>,
     removedComments |-> None,
     parsedCoverPicture |-> pictureBlock,
     pendingCoverPicture |-> <<>>,
     removeCoverPicture |-> FALSE]

\* Open from the point where the VORBIS_COMMENT block has been parsed
openParsed(flacRef, vorbis, parsedComments) ==
    IF parsedComments.kind = "error" THEN Err("unable to parse vorbis blocks")
    ELSE IF parsedComments.kind = "panic" THEN parsedComments
    ELSE Ok([flacRef EXCEPT
                !.vorbisIndex = Some(vorbis.Index),
                !.vorbisLength = vorbis.BlockHeader.BlockLength,
                !.parsedComments = parsedComments.val,
                !.pendingComments = parsedComments.val,
                !.removedComments = Some({})])

\* Open from the point where the two getBlock calls have returned
openWith(flacRef, vorbis) ==
    IF vorbis = NoBlock THEN Ok(flacRef)
    ELSE openParsed(flacRef, vorbis, parseVorbisBlock(vorbis.BlockData))

Open(path, file) ==
    IF ~file.exists THEN Err("failed to initialize flacgo")
    ELSE IF GetAsText(ReadMagic(file.data)) # MagicFLAC
    THEN Err("invalid FLAC format file")
    ELSE openWith(NewFlac(path, file, BlockOrNil(getBlock(file.data, "PICTURE"))),
                  BlockOrNil(getBlock(file.data, "VORBIS_COMMENT")))

\* ReadMetadata: the first parsed comment whose lower-cased title is `title`
ReadMetadata(f, title) ==
    LET hits == {i \in 1 .. Len(f.parsedComments) :
                    ToLower(f.parsedComments[i].Title) = title}
    IN  IF hits = {} THEN Err("no metadata found with title")
        ELSE Ok(f.parsedComments[CHOOSE i \in hits : \A j \in hits : i <= j].Value)

\* one block of Save's newBlocks: its header bytes, its payload, and where
\* the header's byte slice lives (a fresh read, or memory the session keeps)
NewBlock(header, data, from) == [hdr |-> header, data |-> data, from |-> from]

OfBlock(block) == NewBlock(block.BlockHeader.Data, block.BlockData, "scan")

\* a built block (header and body in one byte slice) as an entry of newBlocks
OfBuilt(blockBytes, from) ==
    NewBlock(Slice(blockBytes, 0, 4), Slice(blockBytes, 4, Len(blockBytes)), from)

\* *vorbisBlock, for the block getBlock returned: a nil pointer panics
OfReread(vorbisBlock) ==
    IF vorbisBlock = NoBlock THEN Panic("nil pointer dereference")
    ELSE Ok(<<OfBlock(vorbisBlock)>>)

\* the VORBIS_COMMENT entry of newBlocks: a sequence of zero or one block
SaveVorbis(f, file, allMetadata) ==
    IF Len(f.pendingComments) > 0
    THEN Ok(<<OfBuilt(createVorbisBlock(f.pendingComments, allMetadata), "built")>>)
    ELSE IF f.vorbisIndex # None
    THEN OfReread(BlockOrNil(getBlock(file, "VORBIS_COMMENT")))
    ELSE Ok(<<>>)

\* variant: a requested removal wins over a staged cover
SavePicture_RemoveWins(f) ==
    IF f.removeCoverPicture THEN <<>>
    ELSE IF Len(f.pendingCoverPicture) > 0
    THEN <<OfBuilt(f.pendingCoverPicture, "pending")>>
    ELSE IF f.parsedCoverPicture # NoBlock
    THEN <<NewBlock(f.parsedCoverPicture.BlockHeader.Data,
                    f.parsedCoverPicture.BlockData, "parsed")>>
    ELSE <<>>

\* the PICTURE entry of newBlocks: a sequence of zero or one block
SavePicture(f) ==
    IF Len(f.pendingCoverPicture) > 0
    THEN <<OfBuilt(f.pendingCoverPicture, "pending")>>
    ELSE IF f.parsedCoverPicture # NoBlock /\ ~f.removeCoverPicture
    THEN <<NewBlock(f.parsedCoverPicture.BlockHeader.Data,
                    f.parsedCoverPicture.BlockData, "parsed")>>
    ELSE <<>>

OfBlocks(filteredBlocks) ==
    [i \in 1 .. Len(filteredBlocks) |-> OfBlock(filteredBlocks[i])]

\* variant: only STREAMINFO is filtered out of the scanned blocks
SaveOthers_StreamInfoOnly(blocks) ==
    OfBlocks(GetFilteredBlocks(blocks, {"STREAMINFO"}))

SaveOthers(blocks) ==
    OfBlocks(GetFilteredBlocks(blocks, {"STREAMINFO", "VORBIS_COMMENT", "PICTURE"}))

\* "Mark the last block correctly": the header of newBlocks[i] after the loop
\* variant: the bit is set on the last block and never cleared on the others
MarkedHeader_SetOnly(newBlocks, i) ==
    IF i = Len(newBlocks) THEN SetLastBit(newBlocks[i].hdr)
    ELSE newBlocks[i].hdr

MarkedHeader(newBlocks, i) ==
    IF i = Len(newBlocks) THEN SetLastBit(newBlocks[i].hdr)
    ELSE ClearLastBit(newBlocks[i].hdr)

MetadataBuffer(newBlocks) ==
    Flatten([i \in 1 .. Len(newBlocks) |->
                AppendTo(<<>>, <<MarkedHeader(newBlocks, i), newBlocks[i].data>>)])

\* the indexes of the entries of newBlocks whose header lives in `from`
EntriesFrom(newBlocks, from) == {i \in 1 .. Len(newBlocks) : newBlocks[i].from = from}

\* the session after Save's loop wrote the last-block bit into header slices
\* that share memory with pendingCoverPicture or parsedCoverPicture
AfterMarking(f, newBlocks) ==
    [f EXCEPT
        !.pendingCoverPicture =
            IF EntriesFrom(newBlocks, "pending") = {} THEN @
            ELSE MarkedHeader(newBlocks, LastIndex(EntriesFrom(newBlocks, "pending")))
                    \o Slice(@, 4, Len(@)),
        !.parsedCoverPicture =
            IF EntriesFrom(newBlocks, "parsed") = {} THEN @
            ELSE [@ EXCEPT !.BlockHeader.Data =
                    MarkedHeader(newBlocks, LastIndex(EntriesFrom(newBlocks, "parsed")))]]

\* the raw audio: everything from the metadata end to the end of the file
RawAudio(file, metadataEnd) ==
    IF metadataEnd >= Len(file) THEN <<>> ELSE Slice(file, metadataEnd, Len(file))

\* Save from the point where newBlocks is complete
saveMarked(f, file, magicHeader, newBlocks, metadataEnd) ==
    IF metadataEnd.kind # "ok" THEN Err("cannot get metadata end offset")
    ELSE Ok([fullBuffer |-> AppendTo(<<>>, <<magicHeader,
                                             MetadataBuffer(newBlocks),
                                             RawAudio(file, metadataEnd.val)>>),
             flac |-> AfterMarking(f, newBlocks)])

\* Save from the point where STREAMINFO has been looked up
saveBlocks(f, file, blocks, magicHeader, streamInfo, vorbis) ==
    IF magicHeader.kind # "ok" THEN Err("failed to read FLAC header")
    ELSE IF streamInfo = NoBlock THEN Panic("nil pointer dereference")
    ELSE IF vorbis.kind # "ok" THEN vorbis
    ELSE saveMarked(f, file, magicHeader.val,
                    <<OfBlock(streamInfo)>> \o vorbis.val \o SavePicture(f) \o SaveOthers(blocks),
                    getMetadataEndOffset(file))

\* Save from the point where the blocks have been read
saveScanned(f, file, allMetadata, blocks) ==
    IF blocks.kind # "ok" THEN Err("unable to read all metadata blocks")
    ELSE saveBlocks(f, file, blocks.val, readBytes(file, 0, 4),
                    BlockOrNil(getBlock(file, "STREAMINFO")),
                    SaveVorbis(f, file, allMetadata))

\* Save up to os.Create: the bytes to write and the session afterwards, or
\* the error it returns, or the panic it dies of
SaveBuild(f, file, allMetadata) ==
    saveScanned(f, file, allMetadata, readAllMetadataBlocks(file))

\* SetMetadata
\* variant: the comment is appended to parsedComments as well
SetMetadata_IntoParsed(f, title, value) ==
    [kind |-> "ok",
     flac |-> [f EXCEPT !.pendingComments = Append(@, VorbisComment(title, value)),
                        !.parsedComments = Append(@, VorbisComment(title, value))]]

SetMetadata(f, title, value) ==
    [kind |-> "ok",
     flac |-> [f EXCEPT !.pendingComments = Append(@, VorbisComment(title, value))]]

\* variant: the existence check looks at pendingComments
RemoveMetadata_ChecksPending(f, title, ignoreIfMissing) ==
    LET exists == \E i \in 1 .. Len(f.pendingComments) :
                      EqualFold(title, f.pendingComments[i].Title)
        updatedComments == SelectSeq(f.pendingComments,
                                     LAMBDA cmt : ~EqualFold(cmt.Title, title))
    IN  IF ~ignoreIfMissing /\ ~exists
        THEN [kind |-> "error", flac |-> f]
        ELSE IF f.removedComments = None
        THEN [kind |-> "panic", flac |-> [f EXCEPT !.pendingComments = updatedComments]]
        ELSE [kind |-> "ok",
              flac |-> [f EXCEPT
                          !.pendingComments = updatedComments,
                          !.removedComments = Some(@.v \cup {ToLower(title)})]]

\* RemoveMetadata; the write to removedComments panics when the map is nil
RemoveMetadata(f, title, ignoreIfMissing) ==
    LET exists == \E i \in 1 .. Len(f.parsedComments) :
                      EqualFold(title, f.parsedComments[i].Title)
        updatedComments == SelectSeq(f.pendingComments,
                                     LAMBDA cmt : ~EqualFold(cmt.Title, title))
    IN  IF ~ignoreIfMissing /\ ~exists
        THEN [kind |-> "error", flac |-> f]
        ELSE IF f.removedComments = None
        THEN [kind |-> "panic", flac |-> [f EXCEPT !.pendingComments = updatedComments]]
        ELSE [kind |-> "ok",
              flac |-> [f EXCEPT
                          !.pendingComments = updatedComments,
                          !.removedComments = Some(@.v \cup {ToLower(title)})]]

\* variant: no minimum length, the type is sniffed from what there is
SetCoverPictureFromBytes_NoMinimum(f, imgBytes) ==
    [kind |-> "ok",
     flac |-> [f EXCEPT !.pendingCoverPicture =
                            createPictureBlock(imgBytes, DetectContentType(imgBytes))]]

SetCoverPictureFromBytes(f, imgBytes) ==
    IF Len(imgBytes) < SniffLen THEN [kind |-> "error", flac |-> f]
    ELSE
        LET pictureMimeType == DetectContentType(Slice(imgBytes, 0, SniffLen))
            pictureBlockBytes == createPictureBlock(imgBytes, pictureMimeType)
        IN  [kind |-> "ok", flac |-> [f EXCEPT !.pendingCoverPicture = pictureBlockBytes]]

RemoveCoverPicture(f, ignoreIfMissing) ==
    IF f.parsedCoverPicture = NoBlock /\ ~ignoreIfMissing
    THEN [kind |-> "error", flac |-> f]
    ELSE [kind |-> "ok", flac |-> [f EXCEPT !.removeCoverPicture = TRUE]]

-----------------------------------------------------------------------------
(* The VORBIS_COMMENT codec on its own: payloads laid out entry by entry,   *)
(* with a declared count and a declared last length that may disagree with  *)
(* what is physically there, handed to parseVorbisBlock.                     *)

MaxEntries == 2     \* entries physically present in a payload
MaxOver == 5        \* bytes by which the last entry's declared length overshoots
MaxExtra == 2       \* by how much the declared count exceeds the entries present

Vendors == {<<>>, <<118>>}                       \* "", "v"
EntryTexts ==
    { <<97, 61, 120>>,                           \* "a=x"
      <<97, 61, 121>>,                           \* "a=y"
      <<65, 61>>,                                \* "A="
      <<97>>,                                    \* "a"      (no '=')
      <<97, 61, 120, 61, 121>>,                  \* "a=x=y"  (two '=')
      <<61, 61>> }                               \* "=="
EntrySeqs == UNION {[1 .. n -> EntryTexts] : n \in 0 .. MaxEntries}

Layouts ==
    { [vendor |-> v, entries |-> es, over |-> ov, count |-> c] :
        v \in Vendors, es \in EntrySeqs, ov \in 0 .. MaxOver,
        c \in 0 .. MaxEntries + MaxExtra }

LE32(n) == ToBytes(U32Of(n), 4, LittleEndian)

RECURSIVE LayoutEntries(_, _)
LayoutEntries(es, over) ==
    IF es = <<>> THEN <<>>
    ELSE LET declared == Len(Head(es)) + (IF Len(es) = 1 THEN over ELSE 0)
         IN  LE32(declared) \o Head(es) \o LayoutEntries(Tail(es), over)

PayloadOf(g) ==
    LE32(Len(g.vendor)) \o g.vendor \o LE32(g.count) \o LayoutEntries(g.entries, g.over)

NotParsed == [kind |-> "none", val |-> <<>>]

SessionIdle ==
    /\ disk = [p \in {} |-> NoFile]
    /\ phase = Idle
    /\ flac = NoSession
    /\ ret = Idle
    /\ hist = Idle

BuilderIdle ==
    /\ req = Idle
    /\ built = Idle

ScanIdle == scan = Idle

CodecInit ==
    /\ gen \in {g \in Layouts : (g.entries = <<>> => g.over = 0)
                                /\ g.count <= Len(g.entries) + MaxExtra}
    /\ payload = PayloadOf(gen)
    /\ parsed = NotParsed
    /\ recoded = NotParsed
    /\ SessionIdle
    /\ BuilderIdle
    /\ ScanIdle

Parse ==
    /\ parsed.kind = "none"
    /\ parsed' = parseVorbisBlock(payload)
    /\ UNCHANGED <<gen, payload, recoded, sessionVars, builderVars, scan>>

\* the payload of the VORBIS_COMMENT block Save emits for a session just
\* opened on the decoded comments (pendingComments = parsedComments, empty
\* removedComments): the rebuilt block's, or the source's when
\* pendingComments is empty
RecodedPayload(vorbisBlock, parsedComments, allMetadata) ==
    IF Len(parsedComments) > 0
    THEN Slice(createVorbisBlock(parsedComments, allMetadata), 4,
               Len(createVorbisBlock(parsedComments, allMetadata)))
    ELSE vorbisBlock

\* encode the decoded comments as Save does, and decode the result
Recode ==
    /\ parsed.kind = "ok"
    /\ recoded.kind = "none"
    /\ \E allMetadata \in FilterDuplicatedComments(parsed.val, parsed.val, Some({})) :
          recoded' = parseVorbisBlock(RecodedPayload(payload, parsed.val, allMetadata))
    /\ UNCHANGED <<gen, payload, parsed, sessionVars, builderVars, scan>>

CodecNext == Parse \/ Recode

SpecCodec == CodecInit /\ [][CodecNext]_vars

\* what the layout says about the payload
CountEq(s) == Cardinality({i \in 1 .. Len(s) : s[i] = EqSign})
FirstEq(s) == CHOOSE i \in 1 .. Len(s) : s[i] = EqSign /\ \A j \in 1 .. i - 1 : s[j] # EqSign
WellLaidOut(g) == g.over = 0 /\ g.count = Len(g.entries)

\* C8 (as claimed): decoding splits every entry on its first '=' only: a
\* well laid out payload whose entries all hold at least one '=' decodes to
\* the comments (text before the first '=', everything after it), and is
\* rejected as malformed exactly when an entry holds no '='.
C8_SplitOnFirstEquals ==
    (parsed.kind # "none" /\ WellLaidOut(gen)) =>
        IF \A i \in 1 .. Len(gen.entries) : CountEq(gen.entries[i]) >= 1
        THEN /\ parsed.kind = "ok"
             /\ Len(parsed.val) = Len(gen.entries)
             /\ \A i \in 1 .. Len(gen.entries) :
                  LET e == gen.entries[i]
                  IN  parsed.val[i] = VorbisComment(SubSeq(e, 1, FirstEq(e) - 1),
                                                    SubSeq(e, FirstEq(e) + 1, Len(e)))
        ELSE parsed.kind = "error"

\* the last entry's declared length reaches past the payload's end, and the
\* declared count makes the decoder read that entry
Overrun(g) == g.entries # <<>> /\ g.over >= 1 /\ g.count >= Len(g.entries)

\* C9 (as claimed): a declared comment length that would read past the end
\* of the payload, by any number of bytes, makes parseVorbisBlock return an
\* error value: no crash, no comment list.
C9_OverrunIsAnError ==
    (parsed.kind # "none" /\ Overrun(gen)) => parsed.kind = "error"

C11_CodecRoundTrip ==
    recoded.kind # "none" =>
        /\ recoded.kind = "ok"
        /\ {recoded.val[i] : i \in 1 .. Len(recoded.val)}
              = {parsed.val[i] : i \in 1 .. Len(parsed.val)}

-----------------------------------------------------------------------------
(* The session specification: a container on disk is opened, calls are made *)
(* on the session, and Save rebuilds the file.                              *)

MaxCalls == 3       \* calls made on one session (ReadMetadata not counted)

SrcPath == "src.flac"
OutPath == "out.flac"
Paths == {SrcPath, OutPath}

\* a block as it lies in a file
BlockBytes(code, data, isLast) ==
    <<(IF isLast THEN 128 ELSE 0) + code>>
        \o ToBytes(U32Of(Len(data)), 3, BigEndian) \o data

RECURSIVE BlocksBytes(_)
BlocksBytes(bs) ==
    IF bs = <<>> THEN <<>>
    ELSE BlockBytes(Head(bs)[1], Head(bs)[2], Len(bs) = 1) \o BlocksBytes(Tail(bs))

Audio == <<170, 187, 204>>

\* a container: the marker, the blocks (the last one flagged), the audio
Container(bs) == MagicFLAC \o BlocksBytes(bs) \o Audio

\* a well laid out VORBIS_COMMENT payload holding the given entries
Comments(entries) ==
    PayloadOf([vendor |-> <<118>>, entries |-> entries, over |-> 0, count |-> Len(entries)])

TagAx == <<65, 61, 120>>                \* "A=x"
Tagax == <<97, 61, 120>>                \* "a=x"
Tagay == <<97, 61, 121>>                \* "a=y"
Tagbz == <<98, 61, 122>>                \* "b=z"
TagTwoEq == <<97, 61, 120, 61, 121>>    \* "a=x=y"

StreamInfo == <<0, <<16, 0>>>>
StreamInfo2 == <<0, <<16, 1>>>>
Padding == <<1, <<>>>>
Unknown == <<9, <<5>>>>
SeekTable == <<3, <<7, 7>>>>
Picture == <<6, <<80>>>>
Picture2 == <<6, <<81, 81>>>>
Vorbis(entries) == <<4, Comments(entries)>>
VorbisOver ==
    <<4, PayloadOf([vendor |-> <<>>, entries |-> <<TagAx>>, over |-> 1, count |-> 1])>>

SourceBlocks ==
    { <<StreamInfo>>,
      <<StreamInfo, Vorbis(<<TagAx>>)>>,
      <<StreamInfo, Vorbis(<<Tagay, Tagax>>)>>,
      <<StreamInfo, Vorbis(<<>>)>>,
      <<StreamInfo, Picture>>,
      <<StreamInfo, Vorbis(<<TagAx, Tagbz>>), Picture>>,
      <<StreamInfo, Padding, Vorbis(<<Tagbz>>), Unknown, Picture, SeekTable>>,
      <<StreamInfo, Picture, Unknown, Vorbis(<<Tagay>>)>>,
      <<Vorbis(<<TagAx>>)>>,
      <<Padding, StreamInfo, Vorbis(<<TagAx>>)>>,
      <<StreamInfo, StreamInfo2>>,
      <<StreamInfo, Vorbis(<<TagAx>>), Vorbis(<<Tagbz>>)>>,
      <<StreamInfo, Picture, Picture2>>,
      <<StreamInfo, Vorbis(<<TagTwoEq>>)>>,
      <<StreamInfo, VorbisOver>> }

\* blocks none of which carries the terminal flag
RECURSIVE UnflaggedBytes(_)
UnflaggedBytes(bs) ==
    IF bs = <<>> THEN <<>>
    ELSE BlockBytes(Head(bs)[1], Head(bs)[2], FALSE) \o UnflaggedBytes(Tail(bs))

\* containers whose metadata section is cut off: a header of fewer than 4
\* bytes, a payload shorter than its declared length, and the end of the
\* file before any block carries the terminal flag
Truncated ==
    { MagicFLAC \o <<0, 0>>,
      MagicFLAC \o UnflaggedBytes(<<StreamInfo>>) \o <<132, 0, 0, 9, 1, 2>>,
      MagicFLAC \o UnflaggedBytes(<<StreamInfo, Vorbis(<<TagAx>>), Picture>>) }

Sources ==
    {Container(bs) : bs \in SourceBlocks}
        \cup {<<79, 103, 103, 83>> \o BlocksBytes(<<StreamInfo>>)}      \* "OggS..."
        \cup Truncated

Keys == {<<65>>, <<97>>}                         \* "A", "a"
Queries == {<<65>>, <<97>>, <<98>>}              \* "A", "a", "b"
Values == {<<120>>, <<121, 61, 122>>}            \* "x", "y=z"
KeyClasses == {ToLower(k) : k \in Keys \cup Queries}

JpegImage == [i \in 1 .. SniffLen |-> IF i = 1 \/ i = 3 THEN 255 ELSE IF i = 2 THEN 216 ELSE 0]
SmallImage == <<255, 216, 255, 224>>
\* an image one byte longer than the sniffed prefix, with no known signature
PlainImage == [i \in 1 .. SniffLen + 1 |-> i % 256]
Images == {JpegImage, SmallImage, PlainImage}

CodecIdle ==
    /\ gen = Idle
    /\ payload = <<>>
    /\ parsed = NotParsed
    /\ recoded = NotParsed

Init ==
    /\ disk \in {[p \in Paths |-> IF p = SrcPath THEN File(s) ELSE NoFile] : s \in Sources}
    /\ phase = "closed"
    /\ flac = NoSession
    /\ ret = [op |-> "none", kind |-> "ok"]
    /\ hist = [calls |-> 0,
               lastSet |-> [k \in KeyClasses |-> None],
               removed |-> {},
               mutated |-> FALSE,
               savedSrc |-> <<>>,
               source |-> disk[SrcPath].data,
               staged |-> None,
               coverRemoved |-> FALSE,
               lastRemove |-> [title |-> <<>>, ignoreIfMissing |-> FALSE],
               savePath |-> None,
               lastImage |-> <<>>,
               removedThenSet |-> {},
               setThenRemoved |-> {}]
    /\ CodecIdle
    /\ BuilderIdle
    /\ ScanIdle

PhaseAfter(kind) ==
    CASE kind = "ok" -> "open"
      [] kind = "error" -> "open"
      [] kind = "panic" -> "panicked"

CanCall == phase = "open" /\ hist.calls < MaxCalls

Returned(op, r) == [op |-> op, kind |-> r.kind]

\* what a call that changes the session alone leaves behind
Called(op, r) ==
    /\ flac' = r.flac
    /\ phase' = PhaseAfter(r.kind)
    /\ ret' = Returned(op, r)
    /\ UNCHANGED <<disk, offlineVars>>

Opened(r) ==
    /\ phase' = (CASE r.kind = "ok" -> "open"
                   [] r.kind = "error" -> "failed"
                   [] r.kind = "panic" -> "panicked")
    /\ flac' = IF r.kind = "ok" THEN r.val ELSE NoSession
    /\ ret' = Returned("Open", r)

DoOpen ==
    /\ phase = "closed"
    /\ Opened(Open(SrcPath, disk[SrcPath]))
    /\ UNCHANGED <<disk, hist, offlineVars>>

ReadReturned(title, r) ==
    ret' = [op |-> "ReadMetadata", kind |-> r.kind, arg |-> title,
            val |-> IF r.kind = "ok" THEN r.val ELSE <<>>]

DoReadMetadata(title) ==
    /\ phase = "open"
    /\ ReadReturned(title, ReadMetadata(flac, title))
    /\ UNCHANGED <<disk, phase, flac, hist, offlineVars>>

DoSetMetadata(title, value) ==
    /\ CanCall
    /\ Called("SetMetadata", SetMetadata(flac, title, value))
    /\ hist' = [hist EXCEPT !.calls = @ + 1,
                            !.mutated = TRUE,
                            !.lastSet[ToLower(title)] = Some(value),
                            !.removed = @ \ {ToLower(title)},
                            !.removedThenSet =
                                IF ToLower(title) \in hist.removed
                                THEN @ \cup {ToLower(title)} ELSE @,
                            !.setThenRemoved = @ \ {ToLower(title)}]

RemoveRecorded(title, ignoreIfMissing, r) ==
    hist' = IF r.kind = "ok"
            THEN [hist EXCEPT !.calls = @ + 1,
                              !.mutated = TRUE,
                              !.lastSet[ToLower(title)] = None,
                              !.removed = @ \cup {ToLower(title)},
                              !.removedThenSet = @ \ {ToLower(title)},
                              !.setThenRemoved =
                                  IF hist.lastSet[ToLower(title)].some /\ ignoreIfMissing
                                  THEN @ \cup {ToLower(title)} ELSE @,
                              !.lastRemove = [title |-> title,
                                              ignoreIfMissing |-> ignoreIfMissing]]
            ELSE [hist EXCEPT !.calls = @ + 1,
                              !.mutated = TRUE,
                              !.lastRemove = [title |-> title,
                                              ignoreIfMissing |-> ignoreIfMissing]]

DoRemoveMetadata(title, ignoreIfMissing) ==
    /\ CanCall
    /\ Called("RemoveMetadata", RemoveMetadata(flac, title, ignoreIfMissing))
    /\ RemoveRecorded(title, ignoreIfMissing, RemoveMetadata(flac, title, ignoreIfMissing))

DoSetCoverPictureFromBytes(imgBytes) ==
    /\ CanCall
    /\ Called("SetCoverPictureFromBytes", SetCoverPictureFromBytes(flac, imgBytes))
    /\ hist' = [hist EXCEPT !.calls = @ + 1,
                            !.mutated = TRUE,
                            !.lastImage = imgBytes,
                            !.staged = IF Len(imgBytes) >= SniffLen
                                       THEN Some(imgBytes) ELSE @]

DoRemoveCoverPicture(ignoreIfMissing) ==
    /\ CanCall
    /\ Called("RemoveCoverPicture", RemoveCoverPicture(flac, ignoreIfMissing))
    /\ hist' = [hist EXCEPT !.calls = @ + 1,
                            !.mutated = TRUE,
                            !.coverRemoved = TRUE]

\* the lists the merge may hand to createVorbisBlock during Save
SaveMerges(f) ==
    IF Len(f.pendingComments) = 0 THEN {<<>>}
    ELSE FilterDuplicatedComments(f.parsedComments, f.pendingComments, f.removedComments)

\* variant: the output path is not looked at
OutFileName_AlwaysSource(f, outputPath) == f.fileName

\* outFileName of Save: the session's path unless outputPath is given
OutFileName(f, outputPath) ==
    IF outputPath.some THEN outputPath.v ELSE f.fileName

\* variant: the destination is created (and so truncated) before the source
\* is read
DiskAfterSave_CreatesFirst(d, outFileName, r) ==
    IF r.kind = "ok"
    THEN [d EXCEPT ![outFileName] = File(r.val.fullBuffer)]
    ELSE [d EXCEPT ![outFileName] = File(<<>>)]

\* the files after Save: os.Create and Write are reached only when every
\* read of the source has succeeded
DiskAfterSave(d, outFileName, r) ==
    IF r.kind = "ok"
    THEN [d EXCEPT ![outFileName] = File(r.val.fullBuffer)]
    ELSE d

\* what Save leaves behind: r is SaveBuild's result, written to outFileName
Saved(file, outputPath, outFileName, r) ==
    /\ phase' = PhaseAfter(r.kind)
    /\ ret' = [op |-> "Save", kind |-> r.kind, arg |-> outFileName]
    /\ flac' = IF r.kind = "ok" THEN r.val.flac ELSE flac
    /\ disk' = DiskAfterSave(disk, outFileName, r)
    /\ hist' = IF r.kind = "ok"
               THEN [hist EXCEPT !.calls = @ + 1, !.savedSrc = file,
                                 !.savePath = outputPath]
               ELSE [hist EXCEPT !.calls = @ + 1, !.savePath = outputPath]

\* Save(outputPath): outputPath is None for Save(nil)
DoSave(outputPath) ==
    /\ CanCall
    /\ \E allMetadata \in SaveMerges(flac) :
          Saved(disk[flac.fileName].data, outputPath,
                OutFileName(flac, outputPath),
                SaveBuild(flac, disk[flac.fileName].data, allMetadata))
    /\ UNCHANGED offlineVars

Next ==
    \/ DoOpen
    \/ \E title \in Queries : DoReadMetadata(title)
    \/ \E title \in Keys, value \in Values : DoSetMetadata(title, value)
    \/ \E title \in Keys, ignoreIfMissing \in BOOLEAN : DoRemoveMetadata(title, ignoreIfMissing)
    \/ \E imgBytes \in Images : DoSetCoverPictureFromBytes(imgBytes)
    \/ \E ignoreIfMissing \in BOOLEAN : DoRemoveCoverPicture(ignoreIfMissing)
    \/ \E outputPath \in {None, Some(OutPath)} : DoSave(outputPath)

Spec == Init /\ [][Next]_vars

-----------------------------------------------------------------------------
(* What the properties read off a saved file *)

\* the state is the one a successful Save has just left
SavedOk == ret.op = "Save" /\ ret.kind = "ok"

\* the file the last Save wrote, and the source bytes that Save read
OutFile == disk[ret.arg].data
SavedSrc == hist.savedSrc

Scan(bytes) == readAllMetadataBlocks(bytes)

RECURSIVE SumSizes(_)
SumSizes(blocks) ==
    IF blocks = <<>> THEN 0
    ELSE 4 + Head(blocks).BlockHeader.BlockLength + SumSizes(Tail(blocks))

\* 4 plus the sum of 4 + length over the blocks through the first terminal one
MetadataEnd(bytes) == 4 + SumSizes(Scan(bytes).val)

\* the bytes that follow the metadata section
AudioOf(bytes) == SubSeq(bytes, MetadataEnd(bytes) + 1, Len(bytes))

BlocksOfType(bytes, type) == SelectSeq(Scan(bytes).val, LAMBDA b : b.BlockType = type)

\* the entries of a VORBIS_COMMENT payload, read by their declared lengths
RECURSIVE RawEntriesFrom(_, _, _)
RawEntriesFrom(vb, pos, n) ==
    IF n = 0 \/ pos + 4 > Len(vb) THEN <<>>
    ELSE LET len == U32Int(LittleEndianUint32(Slice(vb, pos, pos + 4)))
         IN  IF pos + 4 + len > Len(vb) THEN <<>>
             ELSE <<Slice(vb, pos + 4, pos + 4 + len)>>
                      \o RawEntriesFrom(vb, pos + 4 + len, n - 1)

RawEntries(vb) ==
    LET vendorLength == U32Int(LittleEndianUint32(Slice(vb, 0, 4)))
    IN  RawEntriesFrom(vb, 8 + vendorLength,
                       U32Int(LittleEndianUint32(Slice(vb, 4 + vendorLength,
                                                       8 + vendorLength))))

\* an entry's key (the text before its first '=') and value (the text after)
KeyOf(e) == SubSeq(e, 1, FirstEq(e) - 1)
ValueOf(e) == SubSeq(e, FirstEq(e) + 1, Len(e))

\* the entries of all VORBIS_COMMENT blocks of a file, in file order
FileEntries(bytes) ==
    Flatten([i \in 1 .. Len(BlocksOfType(bytes, "VORBIS_COMMENT")) |->
                RawEntries(BlocksOfType(bytes, "VORBIS_COMMENT")[i].BlockData)])

EntriesOfKey(entries, k) == {i \in 1 .. Len(entries) : ToLower(KeyOf(entries[i])) = k}

\* the comments of a session as a set of key/value pairs
CommentSet(comments) == {comments[i] : i \in 1 .. Len(comments)}

Payloads(blocks) == {blocks[i].BlockData : i \in 1 .. Len(blocks)}

-----------------------------------------------------------------------------
(* Claims about Save *)

\* C1: after every successful Save, whatever was staged, the bytes of the
\* output that follow its metadata section are the source bytes from the
\* source's metadata end (4 plus the sum of 4 + length over the source
\* blocks through the first terminal one) to the end of the file.
C1_AudioCopiedVerbatim ==
    SavedOk =>
        /\ Scan(OutFile).kind = "ok"
        /\ AudioOf(OutFile) = AudioOf(SavedSrc)

\* C1's case: a tag and a cover were staged, the metadata section changed
\* size, and the source carried audio bytes.
C1_Witness ==
    /\ SavedOk
    /\ Len(flac.pendingCoverPicture) > 0
    /\ \E k \in KeyClasses : hist.lastSet[k].some
    /\ MetadataEnd(OutFile) # MetadataEnd(SavedSrc)
    /\ AudioOf(OutFile) = Audio

\* C2: after any successful Save, scanning the output from offset 4 yields
\* exactly one STREAMINFO block, it is the first block, and the terminal
\* flag is set on exactly one block, the last one emitted (the scan, which
\* stops at the first flagged block, ends where the copied audio begins).
C2_OneStreamInfoFirstAndOneTerminal ==
    SavedOk =>
        /\ Scan(OutFile).kind = "ok"
        /\ Scan(OutFile).val[1].BlockType = "STREAMINFO"
        /\ Len(BlocksOfType(OutFile, "STREAMINFO")) = 1
        /\ \A i \in 1 .. Len(Scan(OutFile).val) :
              Scan(OutFile).val[i].IsLastBlock <=> i = Len(Scan(OutFile).val)
        /\ Len(OutFile) - MetadataEnd(OutFile) = Len(SavedSrc) - MetadataEnd(SavedSrc)

\* C2's case: a source with blocks of other types, a staged cover (built
\* with the terminal bit set) and a rebuilt VORBIS_COMMENT, saved.
C2_Witness ==
    /\ SavedOk
    /\ Len(flac.pendingCoverPicture) > 0
    /\ Len(flac.pendingComments) > 0
    /\ Len(Scan(OutFile).val) >= 5
    /\ Scan(OutFile).val[Len(Scan(OutFile).val)].BlockType # "PICTURE"

\* C3 (as claimed): for any key k and value v (v may contain '='), after
\* SetMetadata(k, v) and a successful Save, opening the output succeeds and
\* ReadMetadata(lowercase(k)) on the new session returns v.
C3_SetSaveReopenRead ==
    SavedOk =>
        \A k \in KeyClasses :
            hist.lastSet[k].some =>
                /\ Open(ret.arg, disk[ret.arg]).kind = "ok"
                /\ ReadMetadata(Open(ret.arg, disk[ret.arg]).val, k)
                      = Ok(hist.lastSet[k].v)

\* C4: last-write-wins: when SetMetadata was called (several times) with
\* keys equal ignoring case, the saved file holds one VORBIS_COMMENT block
\* with exactly one entry for that key, whose value is that of the last
\* such call, whether or not the source had a comment with the key.
C4_LastWriteWins ==
    SavedOk =>
        \A k \in KeyClasses :
            hist.lastSet[k].some =>
                /\ Len(BlocksOfType(OutFile, "VORBIS_COMMENT")) = 1
                /\ Cardinality(EntriesOfKey(FileEntries(OutFile), k)) = 1
                /\ \A i \in EntriesOfKey(FileEntries(OutFile), k) :
                      ValueOf(FileEntries(OutFile)[i]) = hist.lastSet[k].v

\* C4's case: the source had the key, SetMetadata was then called twice for
\* it with different casings and values, and the file was saved.
C4_Witness ==
    /\ SavedOk
    /\ \E i \in 1 .. Len(flac.pendingComments) - 1 :
          /\ i > Len(flac.parsedComments)
          /\ i + 1 = Len(flac.pendingComments)
          /\ flac.pendingComments[i].Title # flac.pendingComments[i + 1].Title
          /\ EqualFold(flac.pendingComments[i].Title, flac.pendingComments[i + 1].Title)
          /\ flac.pendingComments[i].Value # flac.pendingComments[i + 1].Value
          /\ \E j \in 1 .. Len(flac.parsedComments) :
                EqualFold(flac.parsedComments[j].Title, flac.pendingComments[i].Title)

\* C5 (as claimed): after RemoveMetadata(k, ..) returned without error and
\* no later SetMetadata re-added the key, the output of Save holds no
\* comment whose key equals k ignoring case, for every source comment set.
C5_RemovalIsEffective ==
    SavedOk =>
        \A k \in hist.removed : EntriesOfKey(FileEntries(OutFile), k) = {}

\* C6 (as claimed): saving a session on which no mutation was called gives
\* a container whose STREAMINFO payload, set of comments (as parsed at open,
\* repeated keys included), cover picture bytes and raw audio bytes are the
\* source's.
C6_SaveWithoutMutationKeepsAll ==
    (SavedOk /\ ~hist.mutated) =>
        /\ Payloads(BlocksOfType(OutFile, "STREAMINFO"))
              \subseteq Payloads(BlocksOfType(SavedSrc, "STREAMINFO"))
        /\ Open(ret.arg, disk[ret.arg]).kind = "ok"
        /\ CommentSet(Open(ret.arg, disk[ret.arg]).val.parsedComments)
              = CommentSet(flac.parsedComments)
        /\ Payloads(BlocksOfType(OutFile, "PICTURE"))
              = (IF flac.parsedCoverPicture = NoBlock THEN {}
                 ELSE {flac.parsedCoverPicture.BlockData})
        /\ AudioOf(OutFile) = AudioOf(SavedSrc)

\* C7 (as claimed): ReadMetadata is case-insensitive in the requested key:
\* if a comment parsed at open has a key equal to the query ignoring case,
\* ReadMetadata returns that comment's value, for every casing of the
\* query; otherwise it returns a not-found error.
C7_ReadIsCaseInsensitive ==
    ret.op = "ReadMetadata" =>
        IF \E i \in 1 .. Len(flac.parsedComments) :
               EqualFold(flac.parsedComments[i].Title, ret.arg)
        THEN /\ ret.kind = "ok"
             /\ \E i \in 1 .. Len(flac.parsedComments) :
                   /\ EqualFold(flac.parsedComments[i].Title, ret.arg)
                   /\ ret.val = flac.parsedComments[i].Value
        ELSE ret.kind = "error"

-----------------------------------------------------------------------------
(* Claims about the merge, failures, removal and the files written *)

\* C12 (as claimed): the tag merge is deterministic: every run of
\* FilterDuplicatedComments on the session's parsed, pending and removed
\* comments gives the comments in the same order, so the VORBIS_COMMENT
\* block Save builds from them is the same bytes in every run.
C12_MergeIsDeterministic ==
    SavedOk =>
        \A m1, m2 \in SaveMerges(flac) :
            createVorbisBlock(flac.pendingComments, m1)
                = createVorbisBlock(flac.pendingComments, m2)

\* the file has the FLAC marker and its block scan succeeds
Scans(bytes) == GetAsText(ReadMagic(bytes)) = MagicFLAC /\ Scan(bytes).kind = "ok"

\* C13 (as claimed): Save on a container whose block scan succeeds but holds
\* no STREAMINFO block returns an error value and writes no output; it does
\* not crash.
C13_MissingStreamInfoIsAnError ==
    (/\ ret.op = "Save"
     /\ Scan(hist.source).kind = "ok"
     /\ BlocksOfType(hist.source, "STREAMINFO") = <<>>) =>
        /\ ret.kind = "error"
        /\ disk[SrcPath].data = hist.source
        /\ ~disk[OutPath].exists

\* the file starts with 'fLaC' and its metadata section is cut off
CutOff(bytes) ==
    /\ Len(bytes) >= 4
    /\ SubSeq(bytes, 1, 4) = MagicFLAC
    /\ Scan(bytes).kind # "ok"

\* C14 (as claimed): Open on a file that starts with 'fLaC' but whose
\* metadata section is cut off returns an error, never a session.
C14_OpenOfCutOffFileFails ==
    (ret.op = "Open" /\ CutOff(hist.source)) => ret.kind = "error"

\* C15 (as claimed): if the merged comment set at Save time is empty, the
\* output holds no VORBIS_COMMENT block, even when the source had one.
C15_EmptyMergeEmitsNoBlock ==
    (/\ SavedOk
     /\ DOMAIN MergedMap(flac.parsedComments, flac.pendingComments,
                         flac.removedComments) = {}) =>
        BlocksOfType(OutFile, "VORBIS_COMMENT") = <<>>

\* the payload of the PICTURE block built for an image
StagedPayload(imgBytes) ==
    Slice(createPictureBlock(imgBytes, DetectContentType(Slice(imgBytes, 0, SniffLen))),
          4, Len(createPictureBlock(imgBytes,
                                    DetectContentType(Slice(imgBytes, 0, SniffLen)))))

\* C16: the cover emitted by Save: if a cover was staged, the output holds
\* exactly one PICTURE block, the staged one; else if the source had a
\* PICTURE block and RemoveCoverPicture was not called, it holds one PICTURE
\* block with the source's payload; else it holds none.  Only these three
\* facts decide, not the order of the stage and remove calls.
C16_CoverEmissionRule ==
    SavedOk =>
        IF hist.staged.some
        THEN /\ Len(BlocksOfType(OutFile, "PICTURE")) = 1
             /\ BlocksOfType(OutFile, "PICTURE")[1].BlockData
                   = StagedPayload(hist.staged.v)
        ELSE IF BlocksOfType(hist.source, "PICTURE") # <<>> /\ ~hist.coverRemoved
        THEN /\ Len(BlocksOfType(OutFile, "PICTURE")) = 1
             /\ BlocksOfType(OutFile, "PICTURE")[1].BlockData
                   \in Payloads(BlocksOfType(hist.source, "PICTURE"))
        ELSE BlocksOfType(OutFile, "PICTURE") = <<>>

\* C16's case: the source had a cover, one was staged and the removal was
\* requested as well (in either order), and the file was saved.
C16_Witness ==
    /\ SavedOk
    /\ hist.staged.some
    /\ hist.coverRemoved
    /\ BlocksOfType(hist.source, "PICTURE") # <<>>
    /\ Len(BlocksOfType(OutFile, "PICTURE")) = 1

\* C17 (as claimed): RemoveMetadata(title, true) returns no error and does
\* not crash, for every title and every session opened from a container
\* whose blocks scan, one without VORBIS_COMMENT block included.
C17_RemoveIgnoringMissingSucceeds ==
    (/\ ret.op = "RemoveMetadata"
     /\ hist.lastRemove.ignoreIfMissing
     /\ Scan(hist.source).kind = "ok") => ret.kind = "ok"

\* the step is a call of RemoveMetadata
RemoveStep == ret'.op = "RemoveMetadata" /\ hist'.calls = hist.calls + 1

\* C18: RemoveMetadata(title, false) returns a not-found error exactly when
\* no comment parsed at open has a key equal to title ignoring case (keys
\* only staged by SetMetadata do not count); in the error case the pending
\* comments and the removed keys are unchanged and the session stays usable.
C18_RemoveMissingIsAnError ==
    [][(RemoveStep /\ ~hist'.lastRemove.ignoreIfMissing) =>
          /\ (ret'.kind = "error") <=>
                ~\E i \in 1 .. Len(flac.parsedComments) :
                    EqualFold(flac.parsedComments[i].Title, hist'.lastRemove.title)
          /\ ret'.kind = "error" =>
                /\ flac'.pendingComments = flac.pendingComments
                /\ flac'.removedComments = flac.removedComments
                /\ phase' = "open"]_vars

\* C18's case: the key was staged by SetMetadata only, the source has other
\* comments, and RemoveMetadata(key, false) came back with the error.
C18_Witness ==
    /\ ret.op = "RemoveMetadata"
    /\ ret.kind = "error"
    /\ ~hist.lastRemove.ignoreIfMissing
    /\ Len(flac.parsedComments) > 0
    /\ \E i \in 1 .. Len(flac.pendingComments) :
          EqualFold(flac.pendingComments[i].Title, hist.lastRemove.title)
    /\ phase = "open"

\* the step is a call of one of the four staging operations
StagingStep ==
    /\ hist'.calls = hist.calls + 1
    /\ ret'.op \in {"SetMetadata", "RemoveMetadata",
                    "SetCoverPictureFromBytes", "RemoveCoverPicture"}

\* C19: no call of SetMetadata, RemoveMetadata, SetCoverPictureFromBytes or
\* RemoveCoverPicture changes a byte of any file; such a call changes only
\* the session's pending comments, removed keys, staged cover and
\* remove-cover flag.
C19_StagingTouchesNoFile ==
    [][StagingStep =>
          /\ disk' = disk
          /\ [flac' EXCEPT !.pendingComments = flac.pendingComments,
                           !.removedComments = flac.removedComments,
                           !.pendingCoverPicture = flac.pendingCoverPicture,
                           !.removeCoverPicture = flac.removeCoverPicture] = flac]_vars

\* C19's case: a tag was set, a cover staged and the cover removal asked
\* for, on a source with comments and a cover, and the files are as they were.
C19_Witness ==
    /\ ret.op = "RemoveCoverPicture"
    /\ hist.staged.some
    /\ \E k \in KeyClasses : hist.lastSet[k].some
    /\ Len(flac.parsedComments) > 0
    /\ flac.removeCoverPicture
    /\ disk[SrcPath].data = hist.source
    /\ ~disk[OutPath].exists

\* the step is a call of Save that returned no error
SaveStep == ret'.op = "Save" /\ hist'.calls = hist.calls + 1 /\ ret'.kind = "ok"

\* the file at path p after the step is a container rebuilt from the file the
\* session read: the marker, a block section that scans, the same audio
Rebuilt(p) ==
    /\ disk'[p].exists
    /\ Scans(disk'[p].data)
    /\ AudioOf(disk'[p].data) = AudioOf(disk[SrcPath].data)

\* C20: Save(nil) writes the rebuilt container to the path the session was
\* opened from and no other file; Save(&p), p not the source path, writes it
\* to p and leaves every byte of the source file as it was.
C20_SaveWritesTheRequestedPath ==
    [][SaveStep =>
          IF hist'.savePath.some
          THEN /\ Rebuilt(hist'.savePath.v)
               /\ \A q \in Paths \ {hist'.savePath.v} : disk'[q] = disk[q]
          ELSE /\ Rebuilt(SrcPath)
               /\ \A q \in Paths \ {SrcPath} : disk'[q] = disk[q]]_vars

\* C20's case: after a change, Save(nil) rewrote the source in place and a
\* Save to another path then wrote that path.
C20_Witness ==
    /\ SavedOk
    /\ hist.savePath = Some(OutPath)
    /\ hist.mutated
    /\ disk[SrcPath].data # hist.source
    /\ disk[OutPath].exists
    /\ disk[OutPath].data # hist.source

-----------------------------------------------------------------------------
(* Claims about the blocks Save emits *)

\* C23: the output of every successful Save holds at most one VORBIS_COMMENT
\* block and at most one PICTURE block, whatever the source held (several
\* blocks of either type included) and whatever was staged.
C23_AtMostOneVorbisAndOnePicture ==
    SavedOk =>
        /\ Len(BlocksOfType(OutFile, "VORBIS_COMMENT")) <= 1
        /\ Len(BlocksOfType(OutFile, "PICTURE")) <= 1

C23_Witness ==
    /\ SavedOk
    /\ Len(BlocksOfType(SavedSrc, "PICTURE")) = 2
    /\ Len(BlocksOfType(OutFile, "PICTURE")) = 1

\* the 7-bit type code of a scanned block
TypeCode(b) == b.BlockHeader.Data[1] % 128

\* the scanned blocks of a file that are neither STREAMINFO, VORBIS_COMMENT
\* nor PICTURE, each as its type code, its three length bytes and its payload
OpaqueBlocks(bytes) == SelectSeq(Scan(bytes).val, LAMBDA b : TypeCode(b) \notin {0, 4, 6})

PassedThrough(bytes) ==
    [i \in 1 .. Len(OpaqueBlocks(bytes)) |->
        <<TypeCode(OpaqueBlocks(bytes)[i]),
          SubSeq(OpaqueBlocks(bytes)[i].BlockHeader.Data, 2, 4),
          OpaqueBlocks(bytes)[i].BlockData>>]

\* C24: the blocks of the source that are neither STREAMINFO, VORBIS_COMMENT
\* nor PICTURE (unknown type codes included) are in the output of Save once
\* each, in the source's order, with the same type code, the same three
\* length bytes and the same payload; only the terminal flag may differ.
C24_OpaquePassThrough ==
    SavedOk => PassedThrough(OutFile) = PassedThrough(SavedSrc)

C24_Witness ==
    /\ SavedOk
    /\ hist.mutated
    /\ Len(PassedThrough(SavedSrc)) = 3
    /\ \E i \in 1 .. 3 : PassedThrough(OutFile)[i][1] = 9

\* a step that is a call of Save which did not succeed
FailedSaveStep ==
    /\ hist'.calls = hist.calls + 1
    /\ ret'.op = "Save"
    /\ ret'.kind # "ok"

\* C28: a Save that fails while reading the source (scanning the blocks,
\* reading the marker, locating STREAMINFO, finding the metadata end, reading
\* the audio) has not created, truncated or written the destination: after
\* the call every file, the destination included, is as it was before.
C28_FailedSaveTouchesNoFile ==
    [][FailedSaveStep => disk' = disk]_vars

C28_Witness ==
    /\ ret.op = "Save"
    /\ ret.kind = "error"
    /\ hist.savePath = Some(OutPath)
    /\ ~disk[OutPath].exists
    /\ disk[SrcPath].data = hist.source

-----------------------------------------------------------------------------
(* Claims about the cover picture *)

BEInt(b) == U32Int(BigEndianUint32(b))

\* the fields of a PICTURE payload p, read by the lengths it declares
PicType(p) == BEInt(Slice(p, 0, 4))
PicMimeLength(p) == BEInt(Slice(p, 4, 8))
PicMime(p) == Slice(p, 8, 8 + PicMimeLength(p))
PicDescriptionLength(p) == BEInt(Slice(p, 8 + PicMimeLength(p), 12 + PicMimeLength(p)))
\* the k-th 32-bit field after the description: width, height, colour
\* depth, indexed colours, data length
PicField(p, k) ==
    BEInt(Slice(p, 8 + PicMimeLength(p) + PicDescriptionLength(p) + 4 * k,
                   12 + PicMimeLength(p) + PicDescriptionLength(p) + 4 * k))
PicData(p) == Slice(p, 32 + PicMimeLength(p) + PicDescriptionLength(p), Len(p))

\* block (4 header bytes and payload) is a PICTURE block built from image
BuiltFrom(block, image) ==
    /\ block[1] % 128 = 6
    /\ HeaderLength(Slice(block, 0, 4)) = Len(block) - 4
    /\ PicType(Slice(block, 4, Len(block))) = 3
    /\ PicMimeLength(Slice(block, 4, Len(block)))
           = Len(DetectContentType(Slice(image, 0, SniffLen)))
    /\ PicMime(Slice(block, 4, Len(block))) = DetectContentType(Slice(image, 0, SniffLen))
    /\ PicDescriptionLength(Slice(block, 4, Len(block))) = 0
    /\ PicField(Slice(block, 4, Len(block)), 1) = 600
    /\ PicField(Slice(block, 4, Len(block)), 2) = 600
    /\ PicField(Slice(block, 4, Len(block)), 3) = 24
    /\ PicField(Slice(block, 4, Len(block)), 4) = 0
    /\ PicField(Slice(block, 4, Len(block)), 5) = Len(image)
    /\ PicData(Slice(block, 4, Len(block))) = image

CoverStep ==
    /\ hist'.calls = hist.calls + 1
    /\ ret'.op = "SetCoverPictureFromBytes"

\* C22: SetCoverPictureFromBytes with fewer than 512 bytes returns an error
\* and leaves the whole session, the staged cover included, as it was; with
\* 512 bytes or more it succeeds and the staged cover is a PICTURE block
\* whose image data are exactly the given bytes.
C22_CoverNeedsSniffLenBytes ==
    [][CoverStep =>
          IF Len(hist'.lastImage) < 512
          THEN ret'.kind = "error" /\ flac' = flac
          ELSE /\ ret'.kind = "ok"
               /\ flac'.pendingCoverPicture[1] % 128 = 6
               /\ PicField(Slice(flac'.pendingCoverPicture, 4,
                                  Len(flac'.pendingCoverPicture)), 5)
                      = Len(hist'.lastImage)
               /\ PicData(Slice(flac'.pendingCoverPicture, 4,
                                 Len(flac'.pendingCoverPicture)))
                      = hist'.lastImage]_vars

\* a cover was staged, and a later call with too few bytes was refused
C22_Witness ==
    /\ ret.op = "SetCoverPictureFromBytes"
    /\ ret.kind = "error"
    /\ hist.lastImage = SmallImage
    /\ hist.staged = Some(PlainImage)
    /\ PicData(Slice(flac.pendingCoverPicture, 4, Len(flac.pendingCoverPicture)))
           = PlainImage

\* C25 (layout, for the images a session stages here): the block
\* createPictureBlock builds has type code 6, a 24-bit
\* big-endian length equal to its payload size and the payload picture type
\* 3, MIME length, MIME type, description length 0, width 600, height 600,
\* colour depth 24, indexed colours 0, data length len(image), image bytes,
\* all big-endian; and the scan of the file a Save wrote finds this block.
C25_PictureBlockLayout ==
    /\ hist.staged.some => BuiltFrom(flac.pendingCoverPicture, hist.staged.v)
    /\ (SavedOk /\ hist.staged.some) =>
            /\ getBlock(OutFile, "PICTURE").kind = "ok"
            /\ BuiltFrom(getBlock(OutFile, "PICTURE").val.BlockHeader.Data
                             \o getBlock(OutFile, "PICTURE").val.BlockData,
                         hist.staged.v)

C25_Witness ==
    /\ SavedOk
    /\ hist.staged = Some(JpegImage)
    /\ BlocksOfType(SavedSrc, "PICTURE") = <<>>
    /\ PicType(getBlock(OutFile, "PICTURE").val.BlockData) = 3
    /\ PicMimeLength(getBlock(OutFile, "PICTURE").val.BlockData) = 10

-----------------------------------------------------------------------------
(* Claims about sequences of calls *)

\* C29: of SetMetadata and RemoveMetadata calls on one key (ignoring case)
\* the last decides what Save writes: after RemoveMetadata(k) and then
\* SetMetadata(k, v) the output has exactly one comment with key k, of value
\* v; after SetMetadata(k, v) and then RemoveMetadata(k, true) the output
\* has no comment with key k.
C29_LastCallOnAKeyDecides ==
    SavedOk =>
        \A k \in KeyClasses :
            /\ k \in hist.removedThenSet =>
                   /\ Cardinality(EntriesOfKey(FileEntries(OutFile), k)) = 1
                   /\ \A i \in EntriesOfKey(FileEntries(OutFile), k) :
                          ValueOf(FileEntries(OutFile)[i]) = hist.lastSet[k].v
            /\ k \in hist.setThenRemoved =>
                   EntriesOfKey(FileEntries(OutFile), k) = {}

\* a step that is a successful call of Save
SaveReturned ==
    /\ hist'.calls = hist.calls + 1
    /\ ret'.op = "Save"
    /\ ret'.kind = "ok"

\* the type codes of the scanned blocks of a file, in order
TypeCodes(bytes) == [i \in 1 .. Len(Scan(bytes).val) |-> TypeCode(Scan(bytes).val[i])]

\* the file the call before this step wrote and the file this step wrote
\* agree in block types, comments, cover and audio
SameOutputAgain ==
    /\ TypeCodes(disk'[ret'.arg].data) = TypeCodes(OutFile)
    /\ CommentSet(FileEntries(disk'[ret'.arg].data)) = CommentSet(FileEntries(OutFile))
    /\ Payloads(BlocksOfType(disk'[ret'.arg].data, "PICTURE"))
           = Payloads(BlocksOfType(OutFile, "PICTURE"))
    /\ AudioOf(disk'[ret'.arg].data) = AudioOf(OutFile)

\* C30: Save leaves the session's parsed comments, pending comments, removed
\* keys, staged cover and remove-cover flag as they were, and a Save that
\* directly follows a successful Save (to either path) writes an output with
\* the same block types, comment set, cover bytes and audio as the first.
C30_SaveLeavesTheSessionAlone ==
    [][SaveReturned =>
          /\ flac'.parsedComments = flac.parsedComments
          /\ flac'.pendingComments = flac.pendingComments
          /\ flac'.removedComments = flac.removedComments
          /\ flac'.pendingCoverPicture = flac.pendingCoverPicture
          /\ flac'.removeCoverPicture = flac.removeCoverPicture
          /\ SavedOk => SameOutputAgain]_vars

-----------------------------------------------------------------------------
(* The block builders on payloads of every length: the header they put before
   a payload depends on the payload's length alone. *)

\* how far the payload lengths under test lie from 0 and from 0xFFFFFF
MaxNear == 24

BuiltTypes == {"PICTURE", "VORBIS_COMMENT"}
PayloadLengths ==
    (0 .. MaxNear) \cup {256 * 256 * 256 - 1 + d : d \in (0 - MaxNear) .. MaxNear}

NotBuilt == [kind |-> "none", val |-> <<>>]

BuilderInit ==
    /\ req \in [type : BuiltTypes, length : PayloadLengths]
    /\ built = NotBuilt
    /\ SessionIdle
    /\ CodecIdle
    /\ ScanIdle

\* createPictureBlock on a payload of req.length bytes
BuildPicture ==
    /\ req.type = "PICTURE"
    /\ built.kind = "none"
    /\ built' = PictureHeader(req.length)
    /\ UNCHANGED <<req, sessionVars, codecVars, scan>>

\* createVorbisBlock on a body of req.length bytes
BuildVorbis ==
    /\ req.type = "VORBIS_COMMENT"
    /\ built.kind = "none"
    /\ built' = VorbisHeader(req.length)
    /\ UNCHANGED <<req, sessionVars, codecVars, scan>>

BuilderNext == BuildPicture \/ BuildVorbis

SpecBuilder == BuilderInit /\ [][BuilderNext]_vars

\* C21: building a block whose payload is longer than 0xFFFFFF bytes fails
\* with an error, and no block is built whose 24-bit header length differs
\* from its payload length (being that length modulo 2^24).
C21_OverlongPayloadIsAnError ==
    built.kind # "none" =>
        /\ req.length > 256 * 256 * 256 - 1 => built.kind = "error"
        /\ built.kind = "ok" => HeaderLength(built.val) = req.length

\* C25 (header): the block createPictureBlock builds has type code 6 and a
\* 24-bit big-endian header length equal to the size of its payload.
C25_PictureHeaderLength ==
    (req.type = "PICTURE" /\ built.kind = "ok") =>
        /\ built.val[1] % 128 = 6
        /\ HeaderLength(built.val) = req.length

-----------------------------------------------------------------------------
(* The loop of readAllMetadataBlocks, one turn at a time, on containers laid
   out from a list of blocks and then cut short. *)

\* the most blocks laid out in a container and the most bytes cut off its end
MaxBlocks == 3
MaxCut == 2

\* a laid out block: type code, payload, terminal flag
LaidBlocks == [code : {0, 9}, data : {<<>>, <<16, 0>>}, last : BOOLEAN]

ScanLayouts ==
    [blocks : UNION {[1 .. n -> LaidBlocks] : n \in 0 .. MaxBlocks},
     audio : {<<>>, Audio},
     cut : 0 .. MaxCut]

RECURSIVE LaidBytes(_)
LaidBytes(bs) ==
    IF bs = <<>> THEN <<>>
    ELSE BlockBytes(Head(bs).code, Head(bs).data, Head(bs).last) \o LaidBytes(Tail(bs))

\* the file of a layout: marker, blocks, audio, less the bytes cut off
ScanFile(l) ==
    SubSeq(MagicFLAC \o LaidBytes(l.blocks) \o l.audio,
           1, Len(MagicFLAC \o LaidBytes(l.blocks) \o l.audio) - l.cut)

ScanInit ==
    /\ \E l \in ScanLayouts :
          scan = [src |-> l, file |-> ScanFile(l), offset |-> 4, blocks |-> <<>>,
                  state |-> "running"]
    /\ SessionIdle
    /\ CodecIdle
    /\ BuilderIdle

\* the loop's variables after one turn, data being what readMetadataBlock
\* returned at sc.offset
scanTurn(sc, data) ==
    IF data.kind # "ok" THEN [sc EXCEPT !.blocks = <<>>, !.state = "error"]
    ELSE IF loopBreaks(data.val)
    THEN [sc EXCEPT !.offset = @ + 4 + Len(data.val.BlockData),
                    !.blocks = Append(@, data.val),
                    !.state = "done"]
    ELSE [sc EXCEPT !.offset = @ + 4 + Len(data.val.BlockData),
                    !.blocks = Append(@, data.val)]

\* one turn of the loop of readAllMetadataBlocks
ScanBlock ==
    /\ scan.state = "running"
    /\ scan' = scanTurn(scan, readMetadataBlock(scan.file, scan.offset))
    /\ UNCHANGED <<sessionVars, codecVars, builderVars>>

ScanNext == ScanBlock

\* the loop runs on until it returns: nothing else is scheduled
SpecScan == ScanInit /\ [][ScanNext]_vars /\ WF_vars(ScanBlock)

\* the first laid out block carrying the terminal flag (0 when none does)
FirstTerminal(bs) ==
    IF \E i \in 1 .. Len(bs) : bs[i].last
    THEN CHOOSE i \in 1 .. Len(bs) : bs[i].last /\ \A j \in 1 .. i - 1 : ~bs[j].last
    ELSE 0

\* the offset just past the first n laid out blocks
RECURSIVE OffsetAfter(_, _)
OffsetAfter(bs, n) ==
    IF n = 0 THEN 4 ELSE OffsetAfter(bs, n - 1) + 4 + Len(bs[n].data)

\* the file holds its blocks up to and including a terminal one
HoldsTerminal(sc) ==
    /\ FirstTerminal(sc.src.blocks) > 0
    /\ OffsetAfter(sc.src.blocks, FirstTerminal(sc.src.blocks)) <= Len(sc.file)

\* block i of the scan is block i of the file, found where it lies
ScannedAsLaid(sc, i) ==
    /\ sc.blocks[i].Index = OffsetAfter(sc.src.blocks, i - 1)
    /\ sc.blocks[i].BlockHeader.Data
           = Slice(sc.file, sc.blocks[i].Index, sc.blocks[i].Index + 4)
    /\ sc.blocks[i].BlockHeader.Data[1] % 128 = sc.src.blocks[i].code
    /\ sc.blocks[i].IsLastBlock = sc.src.blocks[i].last
    /\ Len(sc.blocks[i].BlockData)
           = (sc.blocks[i].BlockHeader.Data[2] * 256
                + sc.blocks[i].BlockHeader.Data[3]) * 256
                + sc.blocks[i].BlockHeader.Data[4]
    /\ sc.blocks[i].BlockData = sc.src.blocks[i].data

ScanSound ==
    /\ Len(scan.blocks) <= Len(scan.src.blocks)
    /\ \A i \in 1 .. Len(scan.blocks) :
          /\ ScannedAsLaid(scan, i)
          /\ i < Len(scan.blocks) => ~scan.blocks[i].IsLastBlock
    /\ scan.state = "running" =>
          \A i \in 1 .. Len(scan.blocks) : ~scan.blocks[i].IsLastBlock
    /\ scan.state = "done" =>
          /\ HoldsTerminal(scan)
          /\ Len(scan.blocks) = FirstTerminal(scan.src.blocks)
          /\ readAllMetadataBlocks(scan.file).kind = "ok"
          /\ readAllMetadataBlocks(scan.file).val = scan.blocks
    /\ scan.state = "error" =>
          /\ ~HoldsTerminal(scan)
          /\ readAllMetadataBlocks(scan.file).kind = "error"

\* C26: the block scan ends on every finite container. It returns the
\* blocks in file order up to and including the first one with the terminal
\* flag (block i at offset 4 plus the sum of 4 + length of the blocks before
\* it, its payload as long as its header's 24-bit big-endian length says),
\* or an error when the container ends before a terminal block; it never
\* returns a block beyond the first terminal one and never runs forever.
C26_ScanEndsWithTheBlocks ==
    /\ []ScanSound
    /\ <>(scan.state \in {"done", "error"})

\* a scan that returned two blocks of a container laid out with three
C26_Witness ==
    /\ scan.state = "done"
    /\ Len(scan.blocks) = 2
    /\ Len(scan.src.blocks) = 3
    /\ scan.src.cut > 0

-----------------------------------------------------------------------------
(* parseVorbisBlock on payloads that declare any vendor length: the four
   bytes of the vendor length field, then zero bytes (a vendor of zeros and a
   comment count of 0 when the declared length is the true one). *)

\* the largest true vendor length, the most bytes after the 8 that every
\* payload has, and how far below 2^32 the declared lengths start
MaxVendor == 12
MaxRest == 12
MaxWrap == 12

\* declared vendor lengths: small ones, 2^31, and the ones just below 2^32
VendorLengths ==
    {U32Of(n) : n \in 0 .. MaxVendor}
        \cup {<<32768, 0>>}
        \cup {<<65535, 65535 - d>> : d \in 0 .. MaxWrap}

Zeros(n) == [i \in 1 .. n |-> 0]

VendorInit ==
    /\ gen \in [vendorLength : VendorLengths, rest : 4 .. 4 + MaxRest]
    /\ payload = ToBytes(gen.vendorLength, 4, LittleEndian) \o Zeros(gen.rest)
    /\ parsed = NotParsed
    /\ recoded = NotParsed
    /\ SessionIdle
    /\ BuilderIdle
    /\ ScanIdle

VendorNext == Parse

SpecVendor == VendorInit /\ [][VendorNext]_vars

\* C27: for every payload of at least 8 bytes and every declared vendor
\* length, those for which 8 + vendor_length wraps modulo 2^32 included,
\* parseVorbisBlock returns an error or a comment list; it does not die of
\* an out-of-range slice access.
C27_AnyVendorLengthIsHandled ==
    (parsed.kind # "none" /\ Len(payload) >= 8) => parsed.kind \in {"ok", "error"}

=============================================================================
